---- MODULE Spec2Model ----
(***************************************************************************)
(* zrag: the chunk processing pipeline, the retry loops around provider    *)
(* requests, the text chunker, the chunk content resolver and document     *)
(* ingestion.                                                              *)
(*                                                                         *)
(* State machine of ChunkProcessingService.processChunks (bounded-parallel *)
(* context -> embedding pipeline per chunk, with its Semaphore), of the    *)
(* chunk / embedding / document rows it reads and writes, and of the `add` *)
(* command that drives it and sets the document's aggregate status.        *)
(*                                                                         *)
(* Asynchronous handlers are split at their await points: one action per   *)
(* synchronous run of code between two awaits.                             *)
(*                                                                         *)
(* The retry loops (Retry* actions, SpecRetry) and TextChunker.chunk       *)
(* (Chunker* actions, SpecChunker) have a specification each; the pipeline *)
(* specifications leave their variables untouched and the other way round. *)
(* So do ChunkContentResolver (SpecResolver, SpecSlices) and               *)
(* DocumentService.processDocument (SpecIngest).                           *)
(***************************************************************************)
EXTENDS Integers, Sequences, FiniteSets, TLC

\* ---------------------------------------------------------------- bounds
NumChunks == 2
MaxParallel == 2

\* ------------------------------------------------------ program constants
DefaultMaxParallel == 5
\* RagConfigSchema: processing.maxParallelChunks is at most this
MaxParallelLimit == 20
TokensPerCall == 1

Chunks == 1..NumChunks

\* --max-parallel values given on the command line; 0 stands for every
\* value parseInt turns into a falsy number (0 or NaN)
CliParallelValues == {-1, 0, 1}
\* processing.maxParallelChunks of the configuration; 0 stands for undefined
ConfigParallelValues == {0, 2}

VARIABLES
  docStatus,      \* documents.status of the document ("absent": no row)
  db,             \* chunks table: chunk id -> [status, error_message]
  embeddings,     \* embeddings table: chunk id -> number of rows
  held,           \* chunk records the caller obtained from the store last
  pc,             \* position of the caller
  caller,         \* "add" (the add command), "direct" (API call) or "none"
  opts,           \* ChunkProcessingOptions of the current invocation
  chunks,         \* the chunks argument of the current invocation
  pendingChunks,  \* ids of the chunks selected by the filter, in order
  permits,        \* Semaphore.permits
  waiting,        \* Semaphore.waiting (ids of the pipelines queued)
  pl,             \* per chunk: position and locals of its pipeline
  results,        \* results array of processChunks
  counts,         \* the aggregate counters of processChunks
  ret,            \* how the last processChunks call ended ("none", "result")
  prevFlags,      \* history: the skip flags of the previous processChunks call
  rt,             \* one stage of one chunk going through the retry loops
  ck,             \* a TextChunker: its options and the locals of chunk(text)
  rs,             \* a ChunkContentResolver, the files it reads, its calls
  ing             \* a DocumentService: documents and chunks tables, its calls

pipelineVars == <<docStatus, db, embeddings, held, pc, caller, opts, chunks,
                  pendingChunks, permits, waiting, pl, results, counts, ret,
                  prevFlags>>
sideVars == <<rt, ck, rs, ing>>
vars == <<pipelineVars, sideVars>>

storeVars == <<docStatus, db, embeddings>>
runVars == <<opts, chunks, pendingChunks, permits, waiting, pl, results, counts>>

\* ------------------------------------------------------------ helpers
NoOpts == [maxParallelChunks |-> 0, skipContext |-> FALSE, skipEmbedding |-> FALSE]

IdlePipeline ==
  [st |-> "none", contextGenerated |-> FALSE, embeddingGenerated |-> FALSE,
   contextTokens |-> 0, embeddingTokens |-> 0, lastError |-> "none",
   thrown |-> FALSE, success |-> FALSE, ctxCalls |-> 0, embCalls |-> 0]

ZeroCounts ==
  [successCount |-> 0, failureCount |-> 0, contextSuccessCount |-> 0,
   embeddingSuccessCount |-> 0, totalTokensUsed |-> 0]

\* DatabaseService.getChunksByDocumentId: the rows in chunk_index order
GetChunksByDocumentId ==
  IF docStatus = "absent" THEN << >>
  ELSE [i \in 1..NumChunks |-> [id |-> i, status |-> db[i].status]]

\* DatabaseService.getEmbeddingByChunkId, as a presence flag
GetEmbeddingByChunkId(emb, c) == emb[c] > 0

\* the record of chunk c in the chunks argument
RecordOf(c) == CHOOSE r \in {chunks[i] : i \in 1..Len(chunks)} : r.id = c

\* add.ts: parseInt(options.maxParallel || '5') || config...maxParallelChunks || 5
MaxParallelOption(cli, cfg) ==
  IF cli # 0 THEN cli ELSE IF cfg # 0 THEN cfg ELSE DefaultMaxParallel

\* processChunks: the filter that selects the chunks needing processing
NeedsProcessing(o, r, emb) ==
  IF o.skipContext /\ o.skipEmbedding THEN FALSE
  ELSE IF o.skipContext THEN ~GetEmbeddingByChunkId(emb, r.id)
  ELSE IF o.skipEmbedding THEN r.status # "contextualized" /\ r.status # "complete"
  ELSE r.status # "complete"

\* the ids of a sequence of chunk records
RECURSIVE IdsOf(_)
IdsOf(s) == IF s = << >> THEN << >> ELSE <<Head(s).id>> \o IdsOf(Tail(s))

SeqToSet(s) == {s[i] : i \in 1..Len(s)}

\* ---------------------------------------------------------- Semaphore
\* Semaphore.acquire: the test that grants a permit at once
CanAcquireOffByOne(p) == p >= 0
CanAcquire(p) == p > 0

\* the acquire() calls of pendingChunks.map, made one after the other before
\* any pipeline runs: [permits, waiting, granted]
AcquireAllLastFirst(ids, sem) ==
  LET n == Len(ids)
      k == IF sem.permits < 0 THEN 0
           ELSE IF sem.permits < n THEN sem.permits ELSE n
  IN  [permits |-> sem.permits - k,
       waiting |-> SubSeq(ids, 1, n - k),
       granted |-> {ids[i] : i \in (n - k + 1)..n}]
RECURSIVE AcquireAll(_, _)
AcquireAll(ids, sem) ==
  IF ids = << >> THEN sem
  ELSE AcquireAll(Tail(ids),
         IF CanAcquire(sem.permits)
         THEN [sem EXCEPT !.permits = @ - 1, !.granted = @ \cup {Head(ids)}]
         ELSE [sem EXCEPT !.waiting = Append(@, Head(ids))])

\* Semaphore.release: permits++, then the first waiter (if any) is called and
\* takes the permit: [permits, waiting, next]
SemaphoreReleaseLeak(p, w) ==
  IF Len(w) > 0
  THEN [permits |-> (p + 1) - 1, waiting |-> Tail(w), next |-> {Head(w)}]
  ELSE [permits |-> p, waiting |-> w, next |-> {}]
SemaphoreReleaseNoWake(p, w) ==
  [permits |-> p + 1, waiting |-> w, next |-> {}]
SemaphoreRelease(p, w) ==
  IF Len(w) > 0
  THEN [permits |-> (p + 1) - 1, waiting |-> Tail(w), next |-> {Head(w)}]
  ELSE [permits |-> p + 1, waiting |-> w, next |-> {}]

\* ------------------------------------------------- processChunkLinear
\* Step 1 guard: context is generated unless skipped or, by the record the
\* caller passed, already done
NeedsContext(o, r) ==
  ~o.skipContext /\ r.status # "contextualized" /\ r.status # "complete"

\* Step 2 guard: embedding is generated unless skipped or already stored
NeedsEmbeddingByRecord(o, emb, c) ==
  ~o.skipEmbedding /\ RecordOf(c).status \notin {"embedded", "complete"}
NeedsEmbedding(o, emb, c) ==
  ~o.skipEmbedding /\ ~GetEmbeddingByChunkId(emb, c)

\* status written after a successful embedding
FinalStatus(o, contextGenerated, r) ==
  IF (~o.skipContext /\ contextGenerated) \/ r.status = "contextualized"
  THEN "complete" ELSE "embedded"

\* "Determine overall success"
OverallSuccess(o, r, emb, p) ==
  LET expectedContext == NeedsContext(o, r)
      expectedEmbedding == NeedsEmbedding(o, emb, r.id)
  IN  (~expectedContext \/ p.contextGenerated) /\
      (~expectedEmbedding \/ p.embeddingGenerated)

\* the result object of a pipeline
ResultOf(c, p) ==
  [chunkId |-> c, success |-> p.success, error |-> p.lastError,
   contextGenerated |-> p.contextGenerated,
   embeddingGenerated |-> p.embeddingGenerated,
   contextTokens |-> p.contextTokens, embeddingTokens |-> p.embeddingTokens]

\* processChunks: the counters updated after a pipeline's result is pushed
UpdateCountsDropFailure(cnt, r) ==
  IF r.success
  THEN [cnt EXCEPT !.successCount = @ + 1,
          !.contextSuccessCount = @ + (IF r.contextGenerated THEN 1 ELSE 0),
          !.embeddingSuccessCount = @ + (IF r.embeddingGenerated THEN 1 ELSE 0),
          !.totalTokensUsed = @ + r.contextTokens + r.embeddingTokens]
  ELSE cnt
UpdateCounts(cnt, r) ==
  IF r.success
  THEN [cnt EXCEPT !.successCount = @ + 1,
          !.contextSuccessCount = @ + (IF r.contextGenerated THEN 1 ELSE 0),
          !.embeddingSuccessCount = @ + (IF r.embeddingGenerated THEN 1 ELSE 0),
          !.totalTokensUsed = @ + r.contextTokens + r.embeddingTokens]
  ELSE [cnt EXCEPT !.failureCount = @ + 1]

\* DatabaseService.updateChunk(id, {status}): the status column of row c
UpdateChunkLost(d, c, status) == d
UpdateChunk(d, c, status) == [d EXCEPT ![c].status = status]

\* Step 2 and the rest of processChunkLinear, run after step 1 left the
\* pipeline locals p and the embeddings table emb: either the embedding
\* request is issued, or the result is computed
AfterContextStop(c, p, emb) ==
  IF NeedsEmbedding(opts, emb, c) /\ p.lastError # "context"
  THEN [p EXCEPT !.st = "emb", !.embCalls = @ + 1]
  ELSE [p EXCEPT !.st = "done",
                 !.success = OverallSuccess(opts, RecordOf(c), emb, p)]
AfterContext(c, p, emb) ==
  IF NeedsEmbedding(opts, emb, c)
  THEN [p EXCEPT !.st = "emb", !.embCalls = @ + 1]
  ELSE [p EXCEPT !.st = "done",
                 !.success = OverallSuccess(opts, RecordOf(c), emb, p)]

\* the catch block of processChunkLinear: a failed result
Caught(p) == [p EXCEPT !.st = "done", !.success = FALSE,
                       !.lastError = "thrown", !.thrown = TRUE]

\* ------------------------------------------- retry loops and chunker: idle
\* no stage is going through the retry loops
IdleRetry ==
  [path |-> "none", pc |-> "idle", attempt |-> 0, outerAttempt |-> 0,
   requests |-> 0, authFailed |-> FALSE, failure |-> "none", loop |-> "none",
   wait |-> 0, result |-> "none"]

\* DefaultConfig.chunking
DefaultChunking == [strategy |-> "sentence", chunkSize |-> 1000, overlap |-> 200]

\* new TextChunker(options): nothing chunked yet
NewChunker(o) ==
  [options |-> o, text |-> << >>, pc |-> "idle", startPosition |-> 0,
   chunkIndex |-> 0, i |-> 0, currentChunk |-> << >>, currentStartPos |-> 0,
   paragraphIndex |-> 0, sentences |-> << >>, paragraphs |-> << >>,
   chunks |-> << >>, stored |-> << >>]

\* ----------------------------------------- content resolver: idle
\* the files a resolver is asked about, and the capacity of its cache (the
\* source's maxCacheSize, 10, scaled down with the number of files: the
\* eviction code does not depend on the number); one file more than fits
MaxCacheSize == 2

\* filepath of a file: its number
Files == 1..(MaxCacheSize + 1)
\* the files somebody changes after they were indexed
MutableFiles == {1}
\* the calls that can be in progress at once
Callers == {"first", "second"}

\* what a file holds and its modification time when it is first indexed
\* (every file has its own content), and what the first file holds later:
\* other bytes of the same size, bytes of another size, the indexed bytes
\* written again
IndexedVersion(f) == [content |-> <<"a">> \o [i \in 1..f |-> "."], mtime |-> 0]
FileVersions ==
  {IndexedVersion(1),
   [content |-> <<".", "a">>, mtime |-> 0],
   [content |-> <<"a", "\n", ".">>, mtime |-> 0],
   [content |-> <<"a", ".">>, mtime |-> 1]}

\* crypto.createHash('sha256').update(fileContent).digest('hex'): equal for
\* equal bytes only
Sha256(raw) == <<"sha256", raw>>

\* the document row processDocument inserts for a file
DocumentOf(f, v) ==
  [filepath |-> f, file_size |-> Len(v.content), file_modified |-> v.mtime,
   file_hash |-> Sha256(v.content)]

NoDocument == [filepath |-> 0, file_size |-> 0, file_modified |-> 0, file_hash |-> << >>]
IdleCall == [pc |-> "idle", doc |-> NoDocument]
NoResult ==
  [op |-> "none", doc |-> NoDocument, chunks |-> << >>, hit |-> FALSE,
   cached |-> FALSE, had |-> "none", evicted |-> 0, ok |-> FALSE,
   error |-> "none", texts |-> << >>]

\* new ChunkContentResolver(): empty cache, no call in progress; every file
\* is indexed
NewResolver ==
  [fs |-> [f \in Files |-> IndexedVersion(f)],
   docs |-> {DocumentOf(f, IndexedVersion(f)) : f \in Files},
   cache |-> << >>,
   calls |-> [k \in Callers |-> IdleCall],
   last |-> NoResult]

\* ------------------------------------------ document service: idle
\* what the files handed to processDocument hold: three words, three words
\* with a line break, one word
IngestTexts ==
  {<<"a", " ", "a", " ", "a">>,
   <<"a", " ", "a", "\n", " ", ".">>,
   <<"a">>}

\* no processDocument call has returned
NoOutcome ==
  [op |-> "none", options |-> DefaultChunking, dryRun |-> FALSE, ok |-> FALSE,
   error |-> "none", existing |-> FALSE, document |-> 0, chunks |-> << >>]

\* new DocumentService(db) on a new database; two files to ingest
NewDocumentService ==
  [fs |-> [f \in 1..2 |-> <<"a", " ", "a", " ", "a">>],
   documents |-> << >>,
   chunks |-> << >>,
   calls |-> [k \in Callers |-> [pc |-> "idle", filepath |-> 0, text |-> << >>]],
   last |-> NoOutcome]

\* ------------------------------------------------------------- Init
\* the empty store, no call in progress
PipelineInit ==
  /\ docStatus = "absent"
  /\ db = [c \in Chunks |-> [status |-> "none", error_message |-> "none"]]
  /\ embeddings = [c \in Chunks |-> 0]
  /\ held = << >>
  /\ pc = "idle"
  /\ caller = "none"
  /\ opts = NoOpts
  /\ chunks = << >>
  /\ pendingChunks = << >>
  /\ permits = 0
  /\ waiting = << >>
  /\ pl = [c \in Chunks |-> IdlePipeline]
  /\ results = << >>
  /\ counts = ZeroCounts
  /\ ret = "none"
  /\ prevFlags = [called |-> FALSE, skipContext |-> FALSE, skipEmbedding |-> FALSE]

Init ==
  /\ PipelineInit
  /\ rt = IdleRetry
  /\ ck = NewChunker(DefaultChunking)
  /\ rs = NewResolver
  /\ ing = NewDocumentService

\* ---------------------------------------------------- processChunks
\* processChunks from its entry to its first await: the filter, the early
\* return when nothing is selected, else the semaphore and the acquires
ProcessChunks(arg, o) ==
  LET sel == SelectSeq(arg, LAMBDA r : NeedsProcessing(o, r, embeddings))
      ids == IdsOf(sel)
      sem == AcquireAll(ids, [permits |-> o.maxParallelChunks,
                              waiting |-> << >>, granted |-> {}])
  IN  /\ opts' = o
      /\ prevFlags' = [called |-> TRUE, skipContext |-> o.skipContext,
                       skipEmbedding |-> o.skipEmbedding]
      /\ chunks' = arg
      /\ pendingChunks' = ids
      /\ results' = << >>
      /\ counts' = ZeroCounts
      /\ IF ids = << >>
         THEN /\ pc' = "returned"
              /\ ret' = "result"
              /\ permits' = 0
              /\ waiting' = << >>
              /\ pl' = [c \in Chunks |-> IdlePipeline]
         ELSE /\ pc' = "running"
              /\ ret' = "none"
              /\ permits' = sem.permits
              /\ waiting' = sem.waiting
              /\ pl' = [c \in Chunks |->
                         IF c \in sem.granted
                         THEN [IdlePipeline EXCEPT !.st = "granted"]
                         ELSE IF c \in SeqToSet(sem.waiting)
                         THEN [IdlePipeline EXCEPT !.st = "waiting"]
                         ELSE IdlePipeline]

\* a caller other than the add command calls processChunks with no chunk
\* or with the chunk records it holds (read from the store by the last
\* processDocument, possibly before later runs changed the rows)
DirectCall(kind, sc, se, n) ==
  /\ pc = "idle"
  /\ ProcessChunks(IF kind = "empty" THEN << >> ELSE held,
                   [maxParallelChunks |-> n, skipContext |-> sc,
                    skipEmbedding |-> se])
  /\ caller' = "direct"
  /\ UNCHANGED <<storeVars, held, sideVars>>

\* the then-callback of acquire: processChunkLinear up to its first await.
\* The callbacks of resolved acquire promises are microtasks, run in the
\* order the promises were resolved: that of the granted ids in the list
PipelineStart(c) ==
  /\ pc = "running"
  /\ pl[c].st = "granted"
  /\ \A i, j \in 1..Len(pendingChunks) :
       (i < j /\ pendingChunks[j] = c) => pl[pendingChunks[i]].st # "granted"
  /\ pl' = [pl EXCEPT ![c] =
              IF NeedsContext(opts, RecordOf(c))
              THEN [@ EXCEPT !.st = "ctx", !.ctxCalls = @ + 1]
              ELSE AfterContext(c, @, embeddings)]
  /\ UNCHANGED <<storeVars, held, pc, caller, opts, chunks, pendingChunks,
                 permits, waiting, results, counts, ret, prevFlags, sideVars>>

\* promise continuations (the then-callback of a granted acquire, the code
\* after `await processChunkLinear`) run before the event loop delivers the
\* next provider response
MicrotasksDrained == \A c \in Chunks : pl[c].st \notin {"granted", "done"}

\* generateContext returned (it never throws; ok is its success flag);
\* thr: db.updateChunk throws
ContextReturnBody(c, ok, thr) ==
  /\ pc = "running"
  /\ pl[c].st = "ctx"
  /\ MicrotasksDrained
  /\ IF ok
     THEN LET p1 == [pl[c] EXCEPT !.contextGenerated = TRUE,
                                  !.contextTokens = TokensPerCall]
          IN  IF thr
              THEN /\ pl' = [pl EXCEPT ![c] = Caught(p1)]
                   /\ db' = db
              ELSE /\ db' = UpdateChunk(db, c, "contextualized")
                   /\ pl' = [pl EXCEPT ![c] = AfterContext(c, p1, embeddings)]
     ELSE /\ db' = db
          /\ pl' = [pl EXCEPT ![c] =
                      AfterContext(c, [@ EXCEPT !.lastError = "context"],
                                   embeddings)]
  /\ UNCHANGED <<docStatus, embeddings, held, pc, caller, opts, chunks,
                 pendingChunks, permits, waiting, results, counts, ret,
                 prevFlags, sideVars>>

ContextReturn(c, ok) == ContextReturnBody(c, ok, FALSE)

\* generateEmbedding returned (it never throws; ok is its success flag);
\* thr: "insert" (db.insertEmbedding throws), "update" (db.updateChunk
\* throws) or "none"
EmbeddingReturnBody(c, ok, thr) ==
  /\ pc = "running"
  /\ pl[c].st = "emb"
  /\ MicrotasksDrained
  /\ IF ok
     THEN LET p1 == [pl[c] EXCEPT !.embeddingGenerated = TRUE,
                                  !.embeddingTokens = TokensPerCall]
              emb1 == [embeddings EXCEPT ![c] = @ + 1]
          IN  IF thr = "insert"
              THEN /\ pl' = [pl EXCEPT ![c] = Caught(p1)]
                   /\ UNCHANGED <<db, embeddings>>
              ELSE IF thr = "update"
              THEN /\ pl' = [pl EXCEPT ![c] = Caught(p1)]
                   /\ embeddings' = emb1
                   /\ db' = db
              ELSE /\ embeddings' = emb1
                   /\ db' = UpdateChunk(db, c,
                               FinalStatus(opts, p1.contextGenerated, RecordOf(c)))
                   /\ pl' = [pl EXCEPT ![c] =
                               [p1 EXCEPT !.st = "done",
                                  !.success = OverallSuccess(opts, RecordOf(c),
                                                             emb1, p1)]]
     ELSE /\ UNCHANGED <<db, embeddings>>
          /\ pl' = [pl EXCEPT ![c] =
                      LET p1 == [@ EXCEPT !.lastError = "embedding"]
                      IN  [p1 EXCEPT !.st = "done",
                             !.success = OverallSuccess(opts, RecordOf(c),
                                                        embeddings, p1)]]
  /\ UNCHANGED <<docStatus, held, pc, caller, opts, chunks, pendingChunks,
                 permits, waiting, results, counts, ret, prevFlags, sideVars>>

EmbeddingReturn(c, ok) == EmbeddingReturnBody(c, ok, "none")

\* the rest of the then-callback once processChunkLinear has returned: the
\* result is pushed and counted, and the finally block releases the permit
PipelineFinish(c) ==
  /\ pc = "running"
  /\ pl[c].st = "done"
  /\ LET r == ResultOf(c, pl[c])
         sem == SemaphoreRelease(permits, waiting)
     IN  /\ results' = Append(results, r)
         /\ counts' = UpdateCounts(counts, r)
         /\ permits' = sem.permits
         /\ waiting' = sem.waiting
         /\ pl' = [d \in Chunks |->
                     IF d = c THEN [pl[d] EXCEPT !.st = "released"]
                     ELSE IF d \in sem.next THEN [pl[d] EXCEPT !.st = "granted"]
                     ELSE pl[d]]
  /\ UNCHANGED <<storeVars, held, pc, caller, opts, chunks, pendingChunks, ret,
                 prevFlags, sideVars>>

\* Promise.all resolved: processChunks returns its result
ProcessChunksReturn ==
  /\ pc = "running"
  /\ \A c \in SeqToSet(pendingChunks) : pl[c].st = "released"
  /\ pc' = "returned"
  /\ ret' = "result"
  /\ UNCHANGED <<storeVars, held, caller, runVars, prevFlags, sideVars>>

\* ------------------------------------------------------ the add command
\* DocumentService.processDocument as called by addDocument (no dry run):
\* an already indexed file returns its stored chunks, a new one is inserted
\* with its chunks pending and the document set to processing
AddDocument(sc, se, cli, cfg) ==
  /\ pc = "idle"
  /\ IF docStatus = "absent"
     THEN /\ docStatus' = "processing"
          /\ db' = [c \in Chunks |-> [status |-> "pending", error_message |-> "none"]]
          /\ held' = [i \in 1..NumChunks |-> [id |-> i, status |-> "pending"]]
     ELSE /\ held' = GetChunksByDocumentId
          /\ UNCHANGED <<docStatus, db>>
  /\ opts' = [maxParallelChunks |-> MaxParallelOption(cli, cfg),
              skipContext |-> sc, skipEmbedding |-> se]
  /\ caller' = "add"
  /\ pc' = "add_chunks"
  /\ ret' = "none"
  /\ UNCHANGED <<embeddings, chunks, pendingChunks, permits, waiting, pl,
                 results, counts, prevFlags, sideVars>>

\* addDocument, step 2: processChunks unless both stages are skipped
AddProcessChunks ==
  /\ pc = "add_chunks"
  /\ ~opts.skipContext \/ ~opts.skipEmbedding
  /\ ProcessChunks(held, opts)
  /\ UNCHANGED <<storeVars, held, caller, sideVars>>

AddSkipChunks ==
  /\ pc = "add_chunks"
  /\ opts.skipContext /\ opts.skipEmbedding
  /\ pc' = "add_final"
  /\ UNCHANGED <<storeVars, held, caller, runVars, ret, prevFlags, sideVars>>

\* the locals of a finished processChunks call are gone
ResetRun ==
  /\ chunks' = << >>
  /\ pendingChunks' = << >>
  /\ permits' = 0
  /\ waiting' = << >>
  /\ pl' = [c \in Chunks |-> IdlePipeline]
  /\ results' = << >>
  /\ counts' = ZeroCounts
  /\ ret' = "none"

\* the caller takes the result of processChunks
TakeResult ==
  /\ pc = "returned"
  /\ pc' = IF caller = "add" THEN "add_final" ELSE "idle"
  /\ caller' = IF caller = "add" THEN "add" ELSE "none"
  /\ opts' = IF caller = "add" THEN opts ELSE NoOpts
  /\ ResetRun
  /\ UNCHANGED <<storeVars, held, prevFlags, sideVars>>

\* addDocument: the final status update
AddFinalStatus ==
  /\ pc = "add_final"
  /\ docStatus' = IF opts.skipEmbedding THEN "processing" ELSE "complete"
  /\ pc' = "idle"
  /\ caller' = "none"
  /\ opts' = NoOpts
  /\ UNCHANGED <<db, embeddings, held, chunks, pendingChunks, permits, waiting,
                 pl, results, counts, ret, prevFlags, sideVars>>

\* ------------------------------------------------------- specifications
Next ==
  \/ \E kind \in {"empty", "held"}, sc, se \in BOOLEAN, n \in 1..MaxParallel :
       DirectCall(kind, sc, se, n)
  \/ \E sc, se \in BOOLEAN, cli \in CliParallelValues, cfg \in ConfigParallelValues :
       AddDocument(sc, se, cli, cfg)
  \/ AddProcessChunks
  \/ AddSkipChunks
  \/ \E c \in Chunks : PipelineStart(c)
  \/ \E c \in Chunks, ok \in BOOLEAN : ContextReturn(c, ok)
  \/ \E c \in Chunks, ok \in BOOLEAN : EmbeddingReturn(c, ok)
  \/ \E c \in Chunks : PipelineFinish(c)
  \/ ProcessChunksReturn
  \/ TakeResult
  \/ AddFinalStatus

Spec == Init /\ [][Next]_vars

\* the store may throw (DatabaseError) at a write made by a pipeline
ContextStoreThrow(c) == ContextReturnBody(c, TRUE, TRUE)
EmbeddingStoreThrow(c, thr) == EmbeddingReturnBody(c, TRUE, thr)

\* runs of the add command over a store whose writes may throw
NextStoreFault ==
  \/ \E sc, se \in BOOLEAN, cli \in CliParallelValues, cfg \in ConfigParallelValues :
       AddDocument(sc, se, cli, cfg)
  \/ AddProcessChunks
  \/ AddSkipChunks
  \/ \E c \in Chunks : PipelineStart(c)
  \/ \E c \in Chunks, ok \in BOOLEAN : ContextReturn(c, ok)
  \/ \E c \in Chunks, ok \in BOOLEAN : EmbeddingReturn(c, ok)
  \/ \E c \in Chunks : ContextStoreThrow(c)
  \/ \E c \in Chunks, thr \in {"insert", "update"} : EmbeddingStoreThrow(c, thr)
  \/ \E c \in Chunks : PipelineFinish(c)
  \/ ProcessChunksReturn
  \/ TakeResult
  \/ AddFinalStatus

SpecStoreFault == Init /\ [][NextStoreFault]_vars

\* runs of the add command over a store that does not throw
NextAdd ==
  \/ \E sc, se \in BOOLEAN, cli \in CliParallelValues, cfg \in ConfigParallelValues :
       AddDocument(sc, se, cli, cfg)
  \/ AddProcessChunks
  \/ AddSkipChunks
  \/ \E c \in Chunks : PipelineStart(c)
  \/ \E c \in Chunks, ok \in BOOLEAN : ContextReturn(c, ok)
  \/ \E c \in Chunks, ok \in BOOLEAN : EmbeddingReturn(c, ok)
  \/ \E c \in Chunks : PipelineFinish(c)
  \/ ProcessChunksReturn
  \/ TakeResult
  \/ AddFinalStatus

\* every provider call that is out returns, with either outcome, and every
\* promise continuation that is ready (the then-callback of a granted
\* acquire, the code after processChunkLinear, the code after Promise.all)
\* is run by the event loop
CallsReturn ==
  /\ WF_vars(\E c \in Chunks : PipelineStart(c))
  /\ WF_vars(\E c \in Chunks, ok \in BOOLEAN : ContextReturn(c, ok))
  /\ WF_vars(\E c \in Chunks, ok \in BOOLEAN : EmbeddingReturn(c, ok))
  /\ WF_vars(\E c \in Chunks : PipelineFinish(c))
  /\ WF_vars(ProcessChunksReturn)

SpecCallsReturn == Init /\ [][NextAdd]_vars /\ CallsReturn

\* ----------------------------------------------------------- retry loops
\* One stage (context or embedding) of one chunk, from the service call to
\* its result.  Three paths reach the provider:
\*   processChunks: generateContext / generateEmbedding, no loop of their own
\*   generateContextsForDocument: generateContextWithRetry around generateContext
\*   generateEmbeddingsForChunks: retryOperation around batchGenerateEmbeddings
\* and in each the provider method wraps its HTTP request in withRetry.
MaxRetries == 3
RetryDelayMs == 1000

RetryPaths ==
  {"processChunks", "generateContextsForDocument", "generateEmbeddingsForChunks"}

\* how the provider answers one request, by what the error message says
ProviderOutcomes == {"ok", "authentication", "rate limit", "other"}

\* BaseAIProvider.isAuthError
IsAuthError(outcome) == outcome = "authentication"

\* lastError.message.includes('rate limit'); the message of the error thrown
\* by withRetry and rewrapped by the provider method ends with the message
\* of the request's error
IsRateLimit(failure) == failure = "rate limit"

RECURSIVE Pow2(_)
Pow2(n) == IF n <= 0 THEN 1 ELSE 2 * Pow2(n - 1)

\* withRetry: waitTime = delay * Math.pow(2, attempt - 1), whatever the error
WithRetryWait(attempt) == RetryDelayMs * Pow2(attempt - 1)

\* retryOperation: Math.pow(2, attempt) * 1000 after a rate-limit error, else
\* 1000
RetryOperationWait(failure, attempt) ==
  IF IsRateLimit(failure) THEN Pow2(attempt) * RetryDelayMs ELSE RetryDelayMs

\* generateContextWithRetry: generateContext catches every error and returns
\* success: false, so the catch branch with the exponential delay is never
\* taken and the delay is the one of line 378
ContextRetryWait(failure, attempt) == RetryDelayMs

StageFailed(r, failure) ==
  [r EXCEPT !.pc = "done", !.result = "failed", !.failure = failure,
            !.loop = "none", !.wait = 0]

ServiceSleep(r, failure, loop, wait) ==
  [r EXCEPT !.pc = "sleep", !.failure = failure, !.loop = loop, !.wait = wait]

\* withRetry threw (authentication error, or attempts exhausted) and the
\* provider method rethrew: what the service around it does
ServiceFailure(r, failure) ==
  CASE r.path = "generateContextsForDocument" ->
         IF r.outerAttempt < MaxRetries
         THEN ServiceSleep(r, failure, "generateContextWithRetry",
                           ContextRetryWait(failure, r.outerAttempt))
         ELSE StageFailed(r, failure)
    [] r.path = "generateEmbeddingsForChunks" ->
         IF r.outerAttempt < MaxRetries
         THEN ServiceSleep(r, failure, "retryOperation",
                           RetryOperationWait(failure, r.outerAttempt))
         ELSE StageFailed(r, failure)
    [] OTHER -> StageFailed(r, failure)

\* a service starts a stage of a chunk: first attempt of each loop
StageStart(path) ==
  /\ rt.pc = "idle"
  /\ rt' = [IdleRetry EXCEPT !.path = path, !.pc = "request", !.attempt = 1,
                             !.outerAttempt = 1]
  /\ UNCHANGED <<pipelineVars, ck, rs, ing>>

\* withRetry calls operation(): one request goes to the provider
WithRetryOperation ==
  /\ rt.pc = "request"
  /\ rt' = [rt EXCEPT !.pc = "await", !.requests = @ + 1]
  /\ UNCHANGED <<pipelineVars, ck, rs, ing>>

\* the request settled: withRetry returns, throws, or sleeps before the next
\* attempt
WithRetryResult(outcome) ==
  /\ rt.pc = "await"
  /\ rt' =
       IF outcome = "ok"
       THEN [rt EXCEPT !.pc = "done", !.result = "success"]
       ELSE IF IsAuthError(outcome)
       THEN ServiceFailure([rt EXCEPT !.authFailed = TRUE], outcome)
       ELSE IF rt.attempt = MaxRetries
       THEN ServiceFailure(rt, outcome)
       ELSE ServiceSleep(rt, outcome, "withRetry", WithRetryWait(rt.attempt))
  /\ UNCHANGED <<pipelineVars, ck, rs, ing>>

\* the timer of a retry delay fired: next attempt of the loop that slept
SleepDone ==
  /\ rt.pc = "sleep"
  /\ rt' = IF rt.loop = "withRetry"
           THEN [rt EXCEPT !.pc = "request", !.attempt = @ + 1,
                           !.loop = "none", !.wait = 0]
           ELSE [rt EXCEPT !.pc = "request", !.attempt = 1,
                           !.outerAttempt = @ + 1, !.loop = "none", !.wait = 0]
  /\ UNCHANGED <<pipelineVars, ck, rs, ing>>

NextRetry ==
  \/ \E path \in RetryPaths : StageStart(path)
  \/ WithRetryOperation
  \/ \E outcome \in ProviderOutcomes : WithRetryResult(outcome)
  \/ SleepDone

SpecRetry == Init /\ [][NextRetry]_vars

\* ------------------------------------------------------------ TextChunker
\* Texts are sequences of characters over a letter, a sentence mark, the
\* space and the newline (no tab or carriage return: the first two
\* replacements of preprocessText leave such texts as they are).  Positions
\* are 0-based as in the source.
MaxTextLen == 5
MaxChunkSize == 3
MaxChunksKept == 6

Alphabet == {"a", ".", " ", "\n"}
Strategies == {"character", "sentence", "paragraph"}
RawTexts == UNION {[1..n -> Alphabet] : n \in 0..MaxTextLen}

\* \s of the regular expressions, and what String.trim strips
IsSpace(ch) == ch \in {" ", "\n"}

MathMin(a, b) == IF a <= b THEN a ELSE b
MathMaxSmaller(a, b) == IF a <= b THEN a ELSE b
MathMax(a, b) == IF a >= b THEN a ELSE b
SetMin(S) == CHOOSE x \in S : \A y \in S : x <= y
SetMax(S) == CHOOSE x \in S : \A y \in S : x >= y

\* s[k] and s.slice(a, b) of the source
At(s, k) == s[k + 1]
Slice(s, a, b) == SubSeq(s, a + 1, MathMin(b, Len(s)))

RECURSIVE TrimStart(_)
TrimStart(s) ==
  IF s # << >> /\ IsSpace(Head(s)) THEN TrimStart(Tail(s)) ELSE s
RECURSIVE TrimEnd(_)
TrimEnd(s) ==
  IF s # << >> /\ IsSpace(s[Len(s)]) THEN TrimEnd(SubSeq(s, 1, Len(s) - 1)) ELSE s
Trim(s) == TrimEnd(TrimStart(s))

\* .replace(/[ \t]+/g, ' ')
RECURSIVE CollapseSpaces(_)
CollapseSpaces(s) ==
  IF Len(s) < 2 THEN s
  ELSE IF s[1] = " " /\ s[2] = " " THEN CollapseSpaces(Tail(s))
  ELSE <<s[1]>> \o CollapseSpaces(Tail(s))

\* .replace(/\n{3,}/g, '\n\n')
RECURSIVE CollapseNewlines(_)
CollapseNewlines(s) ==
  IF Len(s) < 3 THEN s
  ELSE IF s[1] = "\n" /\ s[2] = "\n" /\ s[3] = "\n" THEN CollapseNewlines(Tail(s))
  ELSE <<s[1]>> \o CollapseNewlines(Tail(s))

PreprocessText(raw) == Trim(CollapseNewlines(CollapseSpaces(raw)))

\* what preprocessText makes of the texts
CleanedTexts == {PreprocessText(raw) : raw \in RawTexts}

\* TextChunker.validateOptions does not throw
ValidateOptions(o) ==
  /\ o.chunkSize > 0
  /\ o.overlap >= 0
  /\ o.overlap < o.chunkSize
  /\ o.strategy \in Strategies

ValidOptions ==
  {o \in [strategy : Strategies, chunkSize : 0..MaxChunkSize,
          overlap : 0..MaxChunkSize] : ValidateOptions(o)}

TextChunk(text, startPosition, endPosition, index) ==
  [text |-> text, startPosition |-> startPosition,
   endPosition |-> endPosition, index |-> index]

\* chunks.push({..., index: chunkIndex++})
Push(k, chunk) ==
  [k EXCEPT !.chunks = Append(@, chunk), !.chunkIndex = @ + 1]

\* ---- character strategy
\* endPosition of the window starting at start
WindowEndUnclamped(start, size, len) == start + size
WindowEnd(start, size, len) == MathMin(start + size, len)

\* startPosition of the next window
NextStart(start, size, overlap) == MathMax(start + size - overlap, start + 1)

\* chunks.filter(chunk => chunk.text.length > 0)
NonEmptyChunks(list) == SelectSeq(list, LAMBDA chunk : Len(chunk.text) > 0)

\* ---- sentence strategy
\* end of the run of sentence marks, of white space, that starts at k
RECURSIVE MarkRunEnd(_, _)
MarkRunEnd(s, k) ==
  IF k < Len(s) /\ At(s, k) = "." THEN MarkRunEnd(s, k + 1) ELSE k
RECURSIVE SpaceRunEnd(_, _)
SpaceRunEnd(s, k) ==
  IF k < Len(s) /\ IsSpace(At(s, k)) THEN SpaceRunEnd(s, k + 1) ELSE k

\* where /([.!?]+)\s+/ matches at or after from
SentenceMatches(s, from) ==
  {m \in from..(Len(s) - 1) :
     /\ At(s, m) = "."
     /\ MarkRunEnd(s, m) < Len(s)
     /\ IsSpace(At(s, MarkRunEnd(s, m)))}

\* the exec loop of splitIntoSentences from lastIndex on, then the remainder
RECURSIVE SentencesFrom(_, _)
SentencesFrom(s, lastIndex) ==
  LET ms == SentenceMatches(s, lastIndex)
  IN  IF ms = {}
      THEN LET remainingText == Trim(Slice(s, lastIndex, Len(s)))
           IN  IF lastIndex < Len(s) /\ Len(remainingText) > 0
               THEN <<[text |-> remainingText, startPosition |-> lastIndex,
                       endPosition |-> Len(s)]>>
               ELSE << >>
      ELSE LET endIndex == MarkRunEnd(s, SetMin(ms))
               sentenceText == Trim(Slice(s, lastIndex, endIndex))
           IN  (IF Len(sentenceText) > 0
                THEN <<[text |-> sentenceText, startPosition |-> lastIndex,
                        endPosition |-> endIndex]>>
                ELSE << >>)
               \o SentencesFrom(s, SpaceRunEnd(s, endIndex))

SplitIntoSentences(s) == SentencesFrom(s, 0)

\* the inner while of chunkBySentence: sentences are added until the size
\* limit is hit: [i, currentChunk, endPos]
RECURSIVE FillSentences(_, _, _, _, _)
FillSentences(sentences, size, i, currentChunk, endPos) ==
  IF i < Len(sentences)
  THEN LET sentence == sentences[i + 1]
           testChunk == currentChunk
                          \o (IF currentChunk # << >> THEN <<" ">> ELSE << >>)
                          \o sentence.text
       IN  IF Len(testChunk) > size /\ Len(currentChunk) > 0
           THEN [i |-> i, currentChunk |-> currentChunk, endPos |-> endPos]
           ELSE FillSentences(sentences, size, i + 1, testChunk,
                              sentence.endPosition)
  ELSE [i |-> i, currentChunk |-> currentChunk, endPos |-> endPos]

\* the for loop counting back from sentence j: backtrackSentences
RECURSIVE BacktrackSentences(_, _, _, _, _)
BacktrackSentences(sentences, j, backtrackChars, overlapChars, count) ==
  IF j >= 0 /\ backtrackChars < overlapChars
  THEN BacktrackSentences(sentences, j - 1,
                          backtrackChars + Len(sentences[j + 1].text),
                          overlapChars, count + 1)
  ELSE count

\* ---- paragraph strategy
\* the last newline of the white space that starts at the newline at m
LastNewline(s, m) ==
  SetMax({k \in m..(SpaceRunEnd(s, m) - 1) : At(s, k) = "\n"})

\* where /\n\s*\n/ matches at or after from
ParagraphMatches(s, from) ==
  {m \in from..(Len(s) - 1) : At(s, m) = "\n" /\ LastNewline(s, m) > m}

\* text.split(/\n\s*\n/) from position from on
RECURSIVE SplitPieces(_, _)
SplitPieces(s, from) ==
  LET ms == ParagraphMatches(s, from)
  IN  IF ms = {} THEN <<Slice(s, from, Len(s))>>
      ELSE <<Slice(s, from, SetMin(ms))>>
             \o SplitPieces(s, LastNewline(s, SetMin(ms)) + 1)

\* text.indexOf(sub, from)
IndexOf(s, sub, from) ==
  LET hits == {k \in from..(Len(s) - Len(sub)) : Slice(s, k, k + Len(sub)) = sub}
  IN  IF hits = {} THEN -1 ELSE SetMin(hits)

\* the for loop of splitIntoParagraphs
RECURSIVE ParagraphsOf(_, _, _)
ParagraphsOf(s, pieces, currentPosition) ==
  IF pieces = << >> THEN << >>
  ELSE LET trimmedText == Trim(Head(pieces))
           startPosition == IndexOf(s, trimmedText, currentPosition)
           endPosition == startPosition + Len(trimmedText)
       IN  IF Len(trimmedText) > 0
           THEN <<[text |-> trimmedText, startPosition |-> startPosition,
                   endPosition |-> endPosition]>>
                  \o ParagraphsOf(s, Tail(pieces), endPosition)
           ELSE ParagraphsOf(s, Tail(pieces), currentPosition)

SplitIntoParagraphs(s) == ParagraphsOf(s, SplitPieces(s, 0), 0)

\* ---- chunk(text)
\* chunk(text) is called: the text is preprocessed and the strategy's loop
\* is entered
Chunk(cleanedText) ==
  /\ ck.pc = "idle"
  /\ ck' = [NewChunker(ck.options) EXCEPT
              !.text = cleanedText,
              !.pc = ck.options.strategy,
              !.sentences = IF ck.options.strategy = "sentence"
                            THEN SplitIntoSentences(cleanedText) ELSE << >>,
              !.paragraphs = IF ck.options.strategy = "paragraph"
                             THEN SplitIntoParagraphs(cleanedText) ELSE << >>]
  /\ UNCHANGED <<pipelineVars, rt, rs, ing>>

\* chunkByCharacter: the loop test and one pass of the while loop; the
\* function returns when the test fails or the pass breaks
CharacterStep ==
  /\ ck.pc = "character"
  /\ Len(ck.chunks) < MaxChunksKept
  /\ LET size == ck.options.chunkSize
         overlap == ck.options.overlap
         startPosition == ck.startPosition
         endPosition == WindowEnd(startPosition, size, Len(ck.text))
         pushed == Push(ck, TextChunk(Trim(Slice(ck.text, startPosition, endPosition)),
                                      startPosition, endPosition, ck.chunkIndex))
         next == NextStart(startPosition, size, overlap)
     IN  ck' = IF startPosition < Len(ck.text)
               THEN IF next >= endPosition
                    THEN [pushed EXCEPT !.startPosition = next,
                                        !.chunks = NonEmptyChunks(@),
                                        !.pc = "done"]
                    ELSE [pushed EXCEPT !.startPosition = next]
               ELSE [ck EXCEPT !.chunks = NonEmptyChunks(@), !.pc = "done"]
  /\ UNCHANGED <<pipelineVars, rt, rs, ing>>

\* chunkBySentence: the loop test and one pass of the outer while loop
SentenceStep ==
  /\ ck.pc = "sentence"
  /\ Len(ck.chunks) < MaxChunksKept
  /\ LET sentences == ck.sentences
         startPos == sentences[ck.i + 1].startPosition
         filled == FillSentences(sentences, ck.options.chunkSize, ck.i,
                                 << >>, startPos)
         pushed == Push(ck, TextChunk(Trim(filled.currentChunk), startPos,
                                      filled.endPos, ck.chunkIndex))
         overlapChars == MathMin(ck.options.overlap,
                                 Len(filled.currentChunk) \div 2)
         backtrackSentences ==
           BacktrackSentences(sentences, filled.i - 1, 0, overlapChars, 0)
     IN  ck' = IF ck.i < Len(sentences)
               THEN IF Len(Trim(filled.currentChunk)) > 0
                    THEN IF filled.i < Len(sentences)
                         THEN [pushed EXCEPT !.i =
                                 MathMax(filled.i - backtrackSentences,
                                         filled.i - (backtrackSentences \div 2))]
                         ELSE [pushed EXCEPT !.i = filled.i]
                    ELSE [ck EXCEPT !.i = filled.i + 1]
               ELSE [ck EXCEPT !.pc = "done"]
  /\ UNCHANGED <<pipelineVars, rt, rs, ing>>

\* chunkByParagraph: the loop test and one pass of the while loop; after the
\* loop the final chunk is added and the function returns
ParagraphStep ==
  /\ ck.pc = "paragraph"
  /\ Len(ck.chunks) < MaxChunksKept
  /\ LET paragraphs == ck.paragraphs
         size == ck.options.chunkSize
         overlap == ck.options.overlap
         currentChunk == ck.currentChunk
         paragraph == paragraphs[ck.paragraphIndex + 1]
         prevParagraph == paragraphs[ck.paragraphIndex]
         testChunk == currentChunk
                        \o (IF currentChunk # << >> THEN <<"\n", "\n">> ELSE << >>)
                        \o paragraph.text
         pushed == Push(ck, TextChunk(Trim(currentChunk), ck.currentStartPos,
                                      ck.currentStartPos + Len(currentChunk),
                                      ck.chunkIndex))
     IN  ck' = IF ck.paragraphIndex < Len(paragraphs)
               THEN IF Len(testChunk) > size /\ Len(currentChunk) > 0
                    THEN IF /\ overlap > 0
                            /\ ck.paragraphIndex > 0
                            /\ Len(prevParagraph.text) <= overlap
                         THEN [pushed EXCEPT
                                 !.currentChunk = prevParagraph.text,
                                 !.currentStartPos = prevParagraph.startPosition]
                         ELSE [pushed EXCEPT
                                 !.currentChunk = << >>,
                                 !.currentStartPos = paragraph.startPosition]
                    ELSE [ck EXCEPT
                            !.currentChunk = testChunk,
                            !.currentStartPos =
                              IF testChunk = paragraph.text
                              THEN paragraph.startPosition ELSE @,
                            !.paragraphIndex = @ + 1]
               ELSE IF Len(Trim(currentChunk)) > 0
               THEN [pushed EXCEPT !.pc = "done"]
               ELSE [ck EXCEPT !.pc = "done"]
  /\ UNCHANGED <<pipelineVars, rt, rs, ing>>

\* DocumentService.processDocument: the chunks are inserted in the order
\* chunk() returned them, chunk_index taken from the chunk's index
InsertChunks ==
  /\ ck.pc = "done"
  /\ ck' = [ck EXCEPT !.pc = "stored",
                      !.stored = [k \in 1..Len(ck.chunks) |-> ck.chunks[k].index]]
  /\ UNCHANGED <<pipelineVars, rt, rs, ing>>

\* a chunker for every valid configuration
InitChunker ==
  /\ PipelineInit
  /\ rt = IdleRetry
  /\ \E o \in ValidOptions : ck = NewChunker(o)
  /\ rs = NewResolver
  /\ ing = NewDocumentService

NextChunker ==
  \/ \E cleanedText \in CleanedTexts : Chunk(cleanedText)
  \/ CharacterStep
  \/ SentenceStep
  \/ ParagraphStep
  \/ InsertChunks

SpecChunker == InitChunker /\ [][NextChunker]_vars

\* ---- chunkBySentence over every sequence of sentence lengths
\* The loop of chunkBySentence reads only the table splitIntoSentences
\* returned: the texts of the sentences and their positions.  Here it is
\* run on the table of every sequence of up to MaxSentences sentences of 1
\* to MaxSentenceLen characters, one space apart, for every valid
\* configuration of the sentence strategy whose size one chunk can reach.
MaxSentences == 5
MaxSentenceLen == 2

\* the lengths of the sentences of a text
SentenceLengths ==
  UNION {[1..n -> 1..MaxSentenceLen] : n \in 1..MaxSentences}

\* where sentence k starts: after the k - 1 sentences and spaces before it
RECURSIVE StartOf(_, _)
StartOf(lens, k) ==
  IF k = 1 THEN 0 ELSE StartOf(lens, k - 1) + lens[k - 1] + 1

\* what splitIntoSentences returns for a text of such sentences
SentenceTable(lens) ==
  [k \in 1..Len(lens) |->
     [text |-> [i \in 1..lens[k] |-> IF i = lens[k] THEN "." ELSE "a"],
      startPosition |-> StartOf(lens, k),
      endPosition |-> StartOf(lens, k) + lens[k]]]

\* the text itself
TextOf(lens) ==
  [p \in 1..(StartOf(lens, Len(lens)) + lens[Len(lens)]) |->
     IF \E k \in 1..Len(lens) : p = StartOf(lens, k) + lens[k] + 1 THEN " "
     ELSE IF \E k \in 1..Len(lens) : p = StartOf(lens, k) + lens[k] THEN "."
     ELSE "a"]

SentenceOptions ==
  {o \in [strategy : {"sentence"},
          chunkSize : 1..(MaxSentences + MaxSentenceLen),
          overlap : 0..(MaxSentences + MaxSentenceLen)] : ValidateOptions(o)}

\* chunk(text) has split the text and enters the loop of chunkBySentence
InitSentences ==
  /\ PipelineInit
  /\ rt = IdleRetry
  /\ \E lens \in SentenceLengths, o \in SentenceOptions :
       ck = [NewChunker(o) EXCEPT !.text = TextOf(lens),
                                  !.pc = "sentence",
                                  !.sentences = SentenceTable(lens)]
  /\ rs = NewResolver
  /\ ing = NewDocumentService

NextSentences == SentenceStep

SpecSentences == InitSentences /\ [][NextSentences]_vars

\* ================================================= chunk content resolver
\* ChunkContentResolver: getChunkText and resolveMultipleChunks read the
\* file of a document through getFileContent (cache lookup, integrity
\* check, read, cache insert) and slice it with extractChunkText.  The
\* awaits of getFileContent (fs.stat, fs.readFile) split a call in three
\* steps; the chunk arguments are not looked at before the file content is
\* there, so they are drawn in the step that slices.

\* TextProcessor.extractText(content, 'txt'), which is cleanText: control
\* characters (the newline is one) are removed, runs of spaces become one
\* space, the ends are trimmed
ExtractText(raw) == Trim(CollapseSpaces(SelectSeq(raw, LAMBDA ch : ch # "\n")))

\* validateFileIntegrity: the reason, "valid" when there is none
ValidateFileIntegrity(document, fs) ==
  LET stats == fs[document.filepath]
  IN  IF Len(stats.content) # document.file_size THEN "File size has changed"
      ELSE IF stats.mtime # document.file_modified THEN "File has been modified"
      ELSE "valid"

\* Map.get(key): the position of the entry, 0 when there is none
MapGet(cache, key) ==
  IF \E i \in 1..Len(cache) : cache[i].key = key
  THEN CHOOSE i \in 1..Len(cache) : cache[i].key = key
  ELSE 0

\* getFileContent: cached && cached.hash === document.file_hash
CacheHitAnyHash(cache, document) == MapGet(cache, document.filepath) # 0
CacheHit(cache, document) ==
  /\ MapGet(cache, document.filepath) # 0
  /\ cache[MapGet(cache, document.filepath)].hash = document.file_hash

\* Map.delete(key)
MapDelete(cache, key) == SelectSeq(cache, LAMBDA e : e.key # key)

\* Map.set(key, value): an existing key keeps its place in the order
MapSet(cache, entry) ==
  IF MapGet(cache, entry.key) # 0
  THEN [cache EXCEPT ![MapGet(cache, entry.key)] = entry]
  ELSE Append(cache, entry)

\* cacheFileContent: this.fileContentCache.size >= this.maxCacheSize
CacheFullOffByOne(cache) == Len(cache) > MaxCacheSize
CacheFull(cache) == Len(cache) >= MaxCacheSize

\* cacheFileContent: the key it deletes first (0: none)
FirstKey(cache) == IF CacheFull(cache) /\ Len(cache) > 0 THEN cache[1].key ELSE 0

\* cacheFileContent(filepath, content, hash)
CacheFileContent(cache, filepath, content, hash) ==
  MapSet(IF FirstKey(cache) # 0 THEN MapDelete(cache, FirstKey(cache)) ELSE cache,
         [key |-> filepath, content |-> content, hash |-> hash])

\* extractChunkText: the checks that throw a FileError
OutOfBoundsLoose(fileContent, chunk) ==
  chunk.start_position < 0 \/ chunk.end_position > Len(fileContent) + 1
OutOfBounds(fileContent, chunk) ==
  chunk.start_position < 0 \/ chunk.end_position > Len(fileContent)

\* extractChunkText(fileContent, chunk); a chunk_length that differs is
\* only warned about
ExtractChunkText(fileContent, chunk) ==
  IF OutOfBounds(fileContent, chunk)
  THEN [ok |-> FALSE, error |-> "out of bounds", text |-> << >>]
  ELSE IF chunk.start_position >= chunk.end_position
  THEN [ok |-> FALSE, error |-> "start >= end", text |-> << >>]
  ELSE [ok |-> TRUE, error |-> "none",
        text |-> Slice(fileContent, chunk.start_position, chunk.end_position)]

\* chunks.map(chunk => extractChunkText(fileContent, chunk)): the first
\* chunk that throws ends the map
MapChunksReversed(fileContent, list) ==
  [k \in 1..Len(list) |-> ExtractChunkText(fileContent, list[Len(list) + 1 - k])]
MapChunks(fileContent, list) ==
  [k \in 1..Len(list) |-> ExtractChunkText(fileContent, list[k])]

\* what getChunkText(document, chunk) / resolveMultipleChunks(document,
\* chunks) make of the file content: the texts, or the FileError of the
\* first chunk that fails
Resolved(fileContent, list) ==
  LET mapped == MapChunks(fileContent, list)
      failing == {k \in 1..Len(list) : ~mapped[k].ok}
  IN  IF failing = {}
      THEN [ok |-> TRUE, error |-> "none",
            texts |-> [k \in 1..Len(list) |-> mapped[k].text]]
      ELSE [ok |-> FALSE, error |-> mapped[SetMin(failing)].error,
            texts |-> << >>]

\* getChunkText / resolveMultipleChunks is called: getFileContent up to its
\* first await.  A cache entry with the document's hash is returned at
\* once and sliced; otherwise the integrity check is started
GetFileContent(k, document, op, list) ==
  /\ rs.last = NoResult
  /\ rs.calls[k].pc = "idle"
  /\ IF CacheHit(rs.cache, document)
     THEN LET r == Resolved(rs.cache[MapGet(rs.cache, document.filepath)].content, list)
          IN  rs' = [rs EXCEPT !.last =
                       [NoResult EXCEPT !.op = op, !.doc = document,
                                        !.chunks = list, !.hit = TRUE,
                                        !.ok = r.ok, !.error = r.error,
                                        !.texts = r.texts]]
     ELSE rs' = [rs EXCEPT !.calls[k] = [pc |-> "validate", doc |-> document]]
  /\ UNCHANGED <<pipelineVars, rt, ck, ing>>

\* fs.stat answered: validateFileIntegrity; a reason makes getFileContent
\* throw the integrity FileError, else fs.readFile is started
IntegrityChecked(k, op) ==
  /\ rs.last = NoResult
  /\ rs.calls[k].pc = "validate"
  /\ IF ValidateFileIntegrity(rs.calls[k].doc, rs.fs) = "valid"
     THEN rs' = [rs EXCEPT !.calls[k].pc = "read"]
     ELSE rs' = [rs EXCEPT
                  !.calls[k] = IdleCall,
                  !.last = [NoResult EXCEPT !.op = op, !.doc = rs.calls[k].doc,
                                            !.error = "integrity"]]
  /\ UNCHANGED <<pipelineVars, rt, ck, ing>>

\* fs.readFile answered: the text is extracted and cached, getFileContent
\* returns it and the caller slices it
FileRead(k, op, list) ==
  /\ rs.last = NoResult
  /\ rs.calls[k].pc = "read"
  /\ LET document == rs.calls[k].doc
         extractedText == ExtractText(rs.fs[document.filepath].content)
         at == MapGet(rs.cache, document.filepath)
         r == Resolved(extractedText, list)
     IN  rs' = [rs EXCEPT
                  !.cache = CacheFileContent(@, document.filepath, extractedText,
                                             document.file_hash),
                  !.calls[k] = IdleCall,
                  !.last = [NoResult EXCEPT
                              !.op = op, !.doc = document, !.chunks = list,
                              !.cached = TRUE,
                              !.had = IF at = 0 THEN "none"
                                      ELSE IF rs.cache[at].hash = document.file_hash
                                      THEN "same" ELSE "other",
                              !.evicted = FirstKey(rs.cache),
                              !.ok = r.ok, !.error = r.error, !.texts = r.texts]]
  /\ UNCHANGED <<pipelineVars, rt, ck, ing>>

\* the caller has taken the outcome
Returned ==
  /\ rs.last # NoResult
  /\ rs' = [rs EXCEPT !.last = NoResult]
  /\ UNCHANGED <<pipelineVars, rt, ck, ing>>

\* somebody rewrites a file
FileChanged(f, v) ==
  /\ rs.last = NoResult
  /\ rs.fs[f] # v
  /\ rs' = [rs EXCEPT !.fs[f] = v]
  /\ UNCHANGED <<pipelineVars, rt, ck, ing>>

\* processDocument of a file whose bytes no document row has the hash of:
\* a row is inserted (getDocumentByHash finds the row otherwise)
DocumentIndexed(f) ==
  /\ rs.last = NoResult
  /\ \A d \in rs.docs : d.file_hash # Sha256(rs.fs[f].content)
  /\ rs' = [rs EXCEPT !.docs = @ \cup {DocumentOf(f, rs.fs[f])}]
  /\ UNCHANGED <<pipelineVars, rt, ck, ing>>

\* invalidateFile(filepath)
InvalidateFile(f) ==
  /\ rs.last = NoResult
  /\ MapGet(rs.cache, f) # 0
  /\ rs' = [rs EXCEPT !.cache = MapDelete(@, f)]
  /\ UNCHANGED <<pipelineVars, rt, ck, ing>>

\* clearCache()
ClearCache ==
  /\ rs.last = NoResult
  /\ rs.cache # << >>
  /\ rs' = [rs EXCEPT !.cache = << >>]
  /\ UNCHANGED <<pipelineVars, rt, ck, ing>>

\* chunk rows: positions 0..1 / 1..3 and a recorded length
ChunkRows == [start_position : 0..1, end_position : 1..3, chunk_length : 1..2]
\* the rows of the calls that run side by side: one inside the text, one
\* that ends after it
FewChunkRows ==
  {[start_position |-> 0, end_position |-> 1, chunk_length |-> 1],
   [start_position |-> 1, end_position |-> 3, chunk_length |-> 2]}
\* the lists handed to resolveMultipleChunks: up to two rows, in any order,
\* of these and of a row whose recorded length is not the slice's
ChunkLists ==
  LET rows == FewChunkRows
                \cup {[start_position |-> 1, end_position |-> 2, chunk_length |-> 2]}
  IN  UNION {[1..n -> rows] : n \in 0..2}

\* calls of getChunkText side by side for the documents of the store, files
\* changing and being indexed again, cache maintenance
NextResolver ==
  \/ \E k \in Callers, d \in rs.docs, c \in FewChunkRows :
       GetFileContent(k, d, "getChunkText", <<c>>)
  \/ \E k \in Callers : IntegrityChecked(k, "getChunkText")
  \/ \E k \in Callers, c \in FewChunkRows : FileRead(k, "getChunkText", <<c>>)
  \/ Returned
  \/ \E f \in MutableFiles, v \in FileVersions : FileChanged(f, v)
  \/ \E f \in MutableFiles : DocumentIndexed(f)
  \/ \E f \in Files : InvalidateFile(f)
  \/ ClearCache

SpecResolver == Init /\ [][NextResolver]_vars

\* one caller at a time, every chunk row and every list of rows
NextSlices ==
  \/ \E d \in rs.docs, c \in ChunkRows :
       GetFileContent("first", d, "getChunkText", <<c>>)
  \/ \E d \in rs.docs, list \in ChunkLists :
       GetFileContent("first", d, "resolveMultipleChunks", list)
  \/ \E op \in {"getChunkText", "resolveMultipleChunks"} :
       IntegrityChecked("first", op)
  \/ \E c \in ChunkRows : FileRead("first", "getChunkText", <<c>>)
  \/ \E list \in ChunkLists : FileRead("first", "resolveMultipleChunks", list)
  \/ Returned
  \/ \E f \in MutableFiles, v \in FileVersions : FileChanged(f, v)
  \/ \E f \in MutableFiles : DocumentIndexed(f)
  \/ \E f \in Files : InvalidateFile(f)

SpecSlices == Init /\ [][NextSlices]_vars

\* ====================================================== document service
\* DocumentService.processDocumentFromFile / processDocument: the file is
\* read and its text validated, then (after the awaits of fs.stat and
\* fs.readFile) hashed, looked up by hash, segmented and stored in one
\* synchronous run.  The chunking options and the dry-run flag are first
\* looked at in that run, so they are drawn there.  Valid configurations use
\* the character strategy.

\* TextProcessor.validateText: at least three words after cleaning
ValidateText(text) ==
  Cardinality({i \in 1..Len(text) :
                 text[i] # " " /\ (i = 1 \/ text[i - 1] = " ")}) >= 3

\* the chunking options handed to processDocument: two valid ones, then
\* size 0, negative overlap, overlap = size, unknown strategy
IngestOptions ==
  {[strategy |-> "character", chunkSize |-> 2, overlap |-> 0],
   [strategy |-> "character", chunkSize |-> 3, overlap |-> 1],
   [strategy |-> "character", chunkSize |-> 0, overlap |-> 0],
   [strategy |-> "character", chunkSize |-> 2, overlap |-> -1],
   [strategy |-> "character", chunkSize |-> 2, overlap |-> 2],
   [strategy |-> "word", chunkSize |-> 2, overlap |-> 0]}

\* db.getDocumentByHash(fileHash): the id of the row, 0 for null
GetDocumentByHashMiss(documents, fileHash) == 0
GetDocumentByHash(documents, fileHash) ==
  IF \E i \in 1..Len(documents) : documents[i].file_hash = fileHash
  THEN CHOOSE i \in 1..Len(documents) : documents[i].file_hash = fileHash
  ELSE 0

\* chunkByCharacter from startPosition on, list being the chunks pushed
RECURSIVE ChunkByCharacter(_, _, _, _)
ChunkByCharacter(text, o, startPosition, list) ==
  IF startPosition >= Len(text) THEN NonEmptyChunks(list)
  ELSE LET endPosition == WindowEnd(startPosition, o.chunkSize, Len(text))
           pushed == Append(list,
                       TextChunk(Trim(Slice(text, startPosition, endPosition)),
                                 startPosition, endPosition, Len(list)))
           next == NextStart(startPosition, o.chunkSize, o.overlap)
       IN  IF next >= endPosition THEN NonEmptyChunks(pushed)
           ELSE ChunkByCharacter(text, o, next, pushed)

\* new TextChunker(options).chunk(extractedText)
ChunkerChunk(text, o) == ChunkByCharacter(PreprocessText(text), o, 0, << >>)

\* the chunk rows made of the text chunks for a document id
ChunkRecords(textChunks, id) ==
  [k \in 1..Len(textChunks) |->
     [document_id |-> id, chunk_index |-> textChunks[k].index,
      start_position |-> textChunks[k].startPosition,
      end_position |-> textChunks[k].endPosition,
      chunk_length |-> Len(textChunks[k].text), status |-> "pending"]]

\* the mock chunk rows of a dry run: document id 0, nothing is inserted
MockChunksShort(textChunks) ==
  [k \in 1..(Len(textChunks) - 1) |->
     [document_id |-> 0, chunk_index |-> textChunks[k].index,
      start_position |-> textChunks[k].startPosition,
      end_position |-> textChunks[k].endPosition,
      chunk_length |-> Len(textChunks[k].text), status |-> "pending"]]
MockChunks(textChunks) ==
  [k \in 1..Len(textChunks) |->
     [document_id |-> 0, chunk_index |-> textChunks[k].index,
      start_position |-> textChunks[k].startPosition,
      end_position |-> textChunks[k].endPosition,
      chunk_length |-> Len(textChunks[k].text), status |-> "pending"]]

\* processDocumentFromFile(f): the file is read; processDocument extracts
\* the text and validates it (ValidationError), then starts fs.stat
ProcessDocument(k, f) ==
  /\ ing.last = NoOutcome
  /\ ing.calls[k].pc = "idle"
  /\ LET extractedText == ExtractText(ing.fs[f])
     IN  IF ValidateText(extractedText)
         THEN ing' = [ing EXCEPT !.calls[k] =
                        [pc |-> "hashing", filepath |-> f, text |-> extractedText]]
         ELSE ing' = [ing EXCEPT !.last =
                        [NoOutcome EXCEPT !.op = "processDocument",
                                          !.error = "ValidationError"]]
  /\ UNCHANGED <<pipelineVars, rt, ck, rs>>

\* fs.stat and fs.readFile answered: the rest of processDocument.  An
\* error that is no ValidationError or FileError is wrapped in a FileError
FileHashed(k, o, dryRun) ==
  /\ ing.last = NoOutcome
  /\ ing.calls[k].pc = "hashing"
  /\ LET call == ing.calls[k]
         fileHash == Sha256(ing.fs[call.filepath])
         existingDoc == IF dryRun THEN 0
                        ELSE GetDocumentByHash(ing.documents, fileHash)
         textChunks == ChunkerChunk(call.text, o)
         id == Len(ing.documents) + 1
         outcome == [NoOutcome EXCEPT !.op = "processDocument", !.options = o,
                                      !.dryRun = dryRun]
         idle == [pc |-> "idle", filepath |-> 0, text |-> << >>]
     IN  IF existingDoc # 0
         THEN ing' = [ing EXCEPT
                        !.calls[k] = idle,
                        !.last = [outcome EXCEPT
                                    !.ok = TRUE, !.existing = TRUE,
                                    !.document = existingDoc,
                                    !.chunks = SelectSeq(ing.chunks,
                                                 LAMBDA r : r.document_id = existingDoc)]]
         ELSE IF ~ValidateOptions(o)
         THEN ing' = [ing EXCEPT !.calls[k] = idle,
                                 !.last = [outcome EXCEPT !.error = "FileError"]]
         ELSE IF dryRun
         THEN ing' = [ing EXCEPT
                        !.calls[k] = idle,
                        !.last = [outcome EXCEPT
                                    !.ok = TRUE,
                                    !.chunks = MockChunks(textChunks)]]
         ELSE IF \E i \in 1..Len(ing.documents) : ing.documents[i].file_hash = fileHash
         THEN \* file_hash TEXT NOT NULL UNIQUE: insertDocument throws
              ing' = [ing EXCEPT !.calls[k] = idle,
                                 !.last = [outcome EXCEPT !.error = "FileError"]]
         ELSE ing' = [ing EXCEPT
                        !.calls[k] = idle,
                        !.documents = Append(@,
                           [id |-> id, filepath |-> call.filepath,
                            file_hash |-> fileHash,
                            file_size |-> Len(ing.fs[call.filepath]),
                            total_chunks |-> Len(textChunks),
                            status |-> "processing"]),
                        !.chunks = @ \o ChunkRecords(textChunks, id),
                        !.last = [outcome EXCEPT
                                    !.ok = TRUE, !.document = id,
                                    !.chunks = ChunkRecords(textChunks, id)]]
  /\ UNCHANGED <<pipelineVars, rt, ck, rs>>

\* the caller has taken the outcome
ProcessDocumentReturned ==
  /\ ing.last # NoOutcome
  /\ ing' = [ing EXCEPT !.last = NoOutcome]
  /\ UNCHANGED <<pipelineVars, rt, ck, rs>>

\* somebody rewrites a file
IngestFileChanged(f, raw) ==
  /\ ing.last = NoOutcome
  /\ ing.fs[f] # raw
  /\ ing' = [ing EXCEPT !.fs[f] = raw]
  /\ UNCHANGED <<pipelineVars, rt, ck, rs>>

NextIngest ==
  \/ \E k \in Callers, f \in 1..2 : ProcessDocument(k, f)
  \/ \E k \in Callers, o \in IngestOptions, dryRun \in BOOLEAN : FileHashed(k, o, dryRun)
  \/ ProcessDocumentReturned
  \/ \E f \in MutableFiles, raw \in IngestTexts : IngestFileChanged(f, raw)

SpecIngest == Init /\ [][NextIngest]_vars

\* ---------------------------------------------------------- properties
\* a pipeline between its acquire and its release
HoldsPermit(c) == pl[c].st \in {"granted", "ctx", "emb", "done"}
InFlight == Cardinality({c \in Chunks : HoldsPermit(c)})
Selected == SeqToSet(pendingChunks)
ResultsFor(c) == {i \in 1..Len(results) : results[i].chunkId = c}

\* C1: during a processChunks run with maxParallelChunks = N >= 1, at most N
\* pipelines hold a permit (acquired, not yet released) in every state
C1_BoundedParallelism ==
  (pc = "running" /\ opts.maxParallelChunks >= 1)
    => InFlight <= opts.maxParallelChunks

\* the bound is reached while another pipeline waits and stages are running
C1_Witness ==
  /\ pc = "running"
  /\ opts.maxParallelChunks >= 1
  /\ InFlight = opts.maxParallelChunks
  /\ waiting # << >>
  /\ \E c \in Chunks : pl[c].st \in {"ctx", "emb"}

\* C2: permits are conserved: free permits + pipelines in flight = N in every
\* state of a run, the counter never exceeds N, and it is N again when
\* processChunks returns, whether stages succeeded, failed, or a store call
\* threw inside a pipeline
C2_PermitConservation ==
  /\ pc = "running" =>
       /\ permits + InFlight = opts.maxParallelChunks
       /\ permits <= opts.maxParallelChunks
  /\ (pc = "returned" /\ pendingChunks # << >>) =>
       /\ permits = opts.maxParallelChunks
       /\ InFlight = 0

\* a run has returned in which one pipeline threw and another failed a stage
C2_Witness ==
  /\ pc = "returned"
  /\ permits = opts.maxParallelChunks
  /\ \E c \in Selected : pl[c].thrown
  /\ \E c \in Selected : ~pl[c].thrown /\ pl[c].lastError # "none"

\* the order pending < contextualized < embedded < complete
Rank(st) ==
  CASE st = "none" -> 0
    [] st = "pending" -> 1
    [] st = "contextualized" -> 2
    [] st = "embedded" -> 3
    [] st = "complete" -> 4
    [] OTHER -> 0

\* C3: no step moves a chunk's persisted status backward in the order
\* pending < contextualized < embedded < complete
C3_NoStatusRegression ==
  [][\A c \in Chunks : Rank(db'[c].status) >= Rank(db[c].status)]_vars

\* C4: a processChunks call with the same skip flags as the previous call
\* does not select a chunk whose persisted status is complete
C4_ResumeIdempotence ==
  [][\A c \in Chunks :
       ( /\ pc \in {"idle", "add_chunks"}
         /\ pc' \in {"running", "returned"}
         /\ prevFlags.called
         /\ opts'.skipContext = prevFlags.skipContext
         /\ opts'.skipEmbedding = prevFlags.skipEmbedding
         /\ db[c].status = "complete" )
       => c \notin SeqToSet(pendingChunks')]_vars

\* C5: when processChunks has returned, every chunk with a failed stage is
\* persisted as failed with its error recorded, and no chunk whose pipeline
\* succeeded is persisted as failed
C5_FailedChunksMarked ==
  pc = "returned" =>
    \A c \in Selected :
      /\ pl[c].lastError # "none" =>
           (db[c].status = "failed" /\ db[c].error_message # "none")
      /\ pl[c].success => db[c].status # "failed"

\* C6: the document is complete only if every chunk it owns is complete
C6_DocumentCompleteness ==
  docStatus = "complete" => \A c \in Chunks : db[c].status = "complete"

\* every stage attempted for the chunk failed
FailedAllStages(c) ==
  /\ pl[c].st = "released"
  /\ pl[c].ctxCalls + pl[c].embCalls > 0
  /\ ~pl[c].contextGenerated
  /\ ~pl[c].embeddingGenerated
  /\ ~pl[c].success

C9_StructuralFailure ==
  (pc = "returned" /\ chunks = << >>) => ret # "result"

\* C10: a context request is issued for a chunk only if its persisted status
\* does not already record the context (contextualized or complete), and an
\* embedding request only if no embedding is stored
C10_DecidesFromStore ==
  \A c \in Chunks :
    /\ pl[c].st = "ctx" => db[c].status \notin {"contextualized", "complete"}
    /\ pl[c].st = "emb" => embeddings[c] = 0

\* C11: when the embedding stage of a chunk succeeds, the status written is
\* complete if the context stage succeeded in this run or the chunk's
\* persisted status was already contextualized, and embedded otherwise
C11_FinalStatus ==
  [][\A c \in Chunks :
       (pl[c].st = "emb" /\ pl'[c].embeddingGenerated /\ ~pl'[c].thrown) =>
         db'[c].status =
           IF pl[c].contextGenerated \/ db[c].status = "contextualized"
           THEN "complete" ELSE "embedded"]_vars

\* C12: once the embedding request of a chunk has been issued, the context
\* stage of the same chunk is over: no context request is outstanding, the
\* context request its record asks for was made before, and if it succeeded
\* its status update is in the store while the embedding request is out
C12_ContextBeforeEmbedding ==
  \A c \in Chunks :
    pl[c].embCalls > 0 =>
      /\ pl[c].st \in {"emb", "done", "released"}
      /\ pl[c].ctxCalls = IF NeedsContext(opts, RecordOf(c)) THEN 1 ELSE 0
      /\ (pl[c].ctxCalls = 1) =>
           (pl[c].contextGenerated \/ pl[c].lastError \in {"context", "embedding"})
      /\ (pl[c].st = "emb" /\ pl[c].contextGenerated) =>
           db[c].status = "contextualized"

\* two embedding requests are out: one after a successful context stage whose
\* status update is stored, one after a failed context stage
C12_Witness ==
  \E c, d \in Chunks :
    /\ pl[c].st = "emb" /\ pl[c].ctxCalls = 1 /\ pl[c].contextGenerated
    /\ db[c].status = "contextualized"
    /\ pl[d].st = "emb" /\ pl[d].ctxCalls = 1 /\ pl[d].lastError = "context"

\* C13: once a provider request of a stage failed with an authentication
\* error, no further request is issued for that stage, and the stage ends
\* failed
C13_AuthNeverRetried ==
  /\ [][rt.authFailed => rt'.requests = rt.requests]_vars
  /\ []((rt.authFailed /\ rt.pc = "done") => rt.result = "failed")

\* C14: at most MaxRetries provider requests are issued for one stage of one
\* chunk, and none after a successful one
C14_BoundedRequests ==
  /\ rt.requests <= MaxRetries
  /\ rt.result = "success" => rt.pc = "done"

\* the attempt number of the loop that is sleeping
SleepingAttempt ==
  IF rt.loop = "withRetry" THEN rt.attempt ELSE rt.outerAttempt

\* C15: the wait before the next attempt is exponential in the attempt number
\* after a rate-limit failure (attempts counted from 0 or from 1) and one
\* fixed delay after any other failure; no wait follows the last attempt
C15_BackoffPolicy ==
  rt.pc = "sleep" =>
    /\ SleepingAttempt < MaxRetries
    /\ IF IsRateLimit(rt.failure)
       THEN rt.wait \in {RetryDelayMs * Pow2(SleepingAttempt - 1),
                         RetryDelayMs * Pow2(SleepingAttempt)}
       ELSE rt.wait = RetryDelayMs

\* chunk() has returned
ChunkReturned == ck.pc \in {"done", "stored"}

\* C16: character strategy, overlap 0: the returned spans tile the text
C16_CharacterTiling ==
  (ChunkReturned /\ ck.options.strategy = "character" /\ ck.options.overlap = 0
     /\ Len(ck.text) > 0) =>
    LET n == Len(ck.chunks)
    IN  /\ n >= 1
        /\ ck.chunks[1].startPosition = 0
        /\ \A k \in 1..(n - 1) :
             ck.chunks[k + 1].startPosition = ck.chunks[k].endPosition
        /\ ck.chunks[n].endPosition = Len(ck.text)

\* the loop variables a pass of a strategy's loop reads besides the text and
\* the options
LoopPosition ==
  <<ck.startPosition, ck.i, ck.paragraphIndex, ck.currentChunk,
    ck.currentStartPos>>

\* C17: chunk() terminates: no pass of a strategy's loop ends in the loop
\* with the loop variables as it found them (such a pass repeats for ever)
C17_EveryPassAdvances ==
  [][(ck.pc \in Strategies /\ ck'.pc = ck.pc) => LoopPosition' # LoopPosition]_vars

\* C18: character strategy: each window starts size - overlap after the
\* previous one, and no window follows one that reached the end of the text
C18_CharacterWindows ==
  (ck.options.strategy = "character" /\ ChunkReturned) =>
    \A k \in 1..(Len(ck.chunks) - 1) :
      /\ ck.chunks[k].endPosition < Len(ck.text)
      /\ ck.chunks[k + 1].index = ck.chunks[k].index + 1 =>
           ck.chunks[k + 1].startPosition =
             ck.chunks[k].startPosition + ck.options.chunkSize - ck.options.overlap

\* C19: every chunk produced satisfies 0 <= start < end <= length(text)
C19_ValidSpans ==
  \A k \in 1..Len(ck.chunks) :
    /\ 0 <= ck.chunks[k].startPosition
    /\ ck.chunks[k].startPosition < ck.chunks[k].endPosition
    /\ ck.chunks[k].endPosition <= Len(ck.text)

\* chunk() returned several chunks, the last one cut at the end of the text
\* by a window that would reach beyond it
C19_Witness ==
  /\ ck.pc = "done"
  /\ ck.options.strategy = "character"
  /\ Len(ck.chunks) >= 2
  /\ ck.chunks[Len(ck.chunks)].endPosition = Len(ck.text)
  /\ ck.chunks[Len(ck.chunks)].startPosition + ck.options.chunkSize > Len(ck.text)

\* C20: the chunks stored for a document carry the indices 0, 1, ..., n-1
C20_ContiguousIndices ==
  ck.pc = "stored" => \A k \in 1..Len(ck.stored) : ck.stored[k] = k - 1

\* ------------------------------------------------- resolver properties
\* the file of the document is not what validateFileIntegrity expects
StatDiffers(document) == ValidateFileIntegrity(document, rs.fs) # "valid"

\* the cache entry of the document's file (callers make sure there is one)
EntryOf(document) == rs.cache[MapGet(rs.cache, document.filepath)]

\* getChunkText(document, chunk) called now and run with nothing in between
GetChunkText(document, chunk) ==
  IF CacheHit(rs.cache, document)
  THEN ExtractChunkText(EntryOf(document).content, chunk)
  ELSE IF ValidateFileIntegrity(document, rs.fs) = "valid"
  THEN ExtractChunkText(ExtractText(rs.fs[document.filepath].content), chunk)
  ELSE [ok |-> FALSE, error |-> "integrity", text |-> << >>]

\* C22: a getChunkText call answered from the cache while the file's size or
\* modification time differs from the document's recorded values fails with
\* the integrity error and returns no text.
C22_IntegrityGateOnCache ==
  (rs.last.op = "getChunkText" /\ rs.last.hit /\ StatDiffers(rs.last.doc))
    => (~rs.last.ok /\ rs.last.error = "integrity" /\ rs.last.texts = << >>)

\* C23: text decoded from the file is returned only when the file's content
\* fingerprint is the document's, also when the file's size and modification
\* time are the recorded ones.
C23_FingerprintChecked ==
  (rs.last.cached /\ rs.last.ok /\ ~StatDiffers(rs.last.doc))
    => Sha256(rs.fs[rs.last.doc.filepath].content) = rs.last.doc.file_hash

\* C24: a call is answered from the cache only by an entry whose fingerprint
\* is the document's, and then with slices of that entry; a call that was
\* not has validated and read the file, after which the one entry of the
\* file holds the text just read and the document's fingerprint.
C24_CacheHitNeedsFingerprint ==
  /\ rs.last.hit =>
       /\ MapGet(rs.cache, rs.last.doc.filepath) # 0
       /\ EntryOf(rs.last.doc).hash = rs.last.doc.file_hash
       /\ rs.last.ok =>
            rs.last.texts = Resolved(EntryOf(rs.last.doc).content, rs.last.chunks).texts
  /\ rs.last.cached =>
       /\ Cardinality({i \in 1..Len(rs.cache) : rs.cache[i].key = rs.last.doc.filepath}) = 1
       /\ EntryOf(rs.last.doc) =
            [key |-> rs.last.doc.filepath,
             content |-> ExtractText(rs.fs[rs.last.doc.filepath].content),
             hash |-> rs.last.doc.file_hash]
  /\ (rs.last.op # "none" /\ rs.last.ok) => (rs.last.hit \/ rs.last.cached)

\* an entry with another fingerprint was there, the file was read again and
\* the entry replaced
C24_Witness ==
  rs.last.cached /\ rs.last.had = "other" /\ rs.last.ok

\* C25: the cache never holds more entries than its capacity.
C25_CacheBounded == Len(rs.cache) <= MaxCacheSize

\* an insertion into the full cache evicted an entry while another call
\* was in progress
C25_Witness ==
  /\ rs.last.cached
  /\ rs.last.evicted # 0
  /\ Len(rs.cache) = MaxCacheSize
  /\ \E k \in Callers : rs.calls[k].pc # "idle"

\* C26: an insertion of a file not in the cache removes the earliest entry
\* when the cache is full and nothing otherwise; caching a file that has an
\* entry removes no entry of another file; a call answered from the cache
\* leaves the cache as it is.
C26_FifoEviction ==
  [][/\ rs'.last.hit => rs'.cache = rs.cache
     /\ (rs'.last.cached /\ rs'.last.had = "none") =>
          /\ rs'.cache # << >>
          /\ rs'.cache[Len(rs'.cache)].key = rs'.last.doc.filepath
          /\ rs'.cache = Append(IF Len(rs.cache) >= MaxCacheSize
                                THEN Tail(rs.cache) ELSE rs.cache,
                                rs'.cache[Len(rs'.cache)])
     /\ (rs'.last.cached /\ rs'.last.had # "none") =>
          {rs.cache[i].key : i \in 1..Len(rs.cache)}
            \subseteq {rs'.cache[i].key : i \in 1..Len(rs'.cache)}]_vars

\* C27: for a file that is as the document recorded it, resolveMultipleChunks
\* fails exactly when getChunkText fails for some chunk of the list, and
\* else returns, position by position, the text getChunkText returns.
C27_BatchEqualsSingle ==
  (/\ rs.last.op = "resolveMultipleChunks"
   /\ DocumentOf(rs.last.doc.filepath, rs.fs[rs.last.doc.filepath]) = rs.last.doc)
    => LET single == [k \in 1..Len(rs.last.chunks) |->
                        GetChunkText(rs.last.doc, rs.last.chunks[k])]
       IN  /\ rs.last.ok <=> \A k \in 1..Len(rs.last.chunks) : single[k].ok
           /\ rs.last.ok =>
                rs.last.texts = [k \in 1..Len(rs.last.chunks) |-> single[k].text]

\* two different chunks resolved in one call
C27_Witness ==
  /\ rs.last.op = "resolveMultipleChunks"
  /\ DocumentOf(rs.last.doc.filepath, rs.fs[rs.last.doc.filepath]) = rs.last.doc
  /\ rs.last.ok
  /\ Len(rs.last.chunks) = 2
  /\ rs.last.texts[1] # rs.last.texts[2]

C21_InvalidConfigurationRejected ==
  (ing.last.op = "processDocument" /\ ing.last.error # "ValidationError"
     /\ ~ValidateOptions(ing.last.options))
    => (/\ ~ing.last.ok
        /\ ing.last.error = "ConfigurationError"
        /\ ing.last.chunks = << >>)

\* C29: no two document rows have the same file hash, and a call that is
\* not a dry run and finds its file's hash in the store returns that
\* document's chunk rows and leaves both tables as they are.
C29_IdempotentIngestion ==
  /\ [](\A i, j \in 1..Len(ing.documents) :
          ing.documents[i].file_hash = ing.documents[j].file_hash => i = j)
  /\ [][\A k \in Callers :
          (/\ ing.calls[k].pc = "hashing"
           /\ ing'.calls[k].pc = "idle"
           /\ ~ing'.last.dryRun
           /\ \E i \in 1..Len(ing.documents) :
                ing.documents[i].file_hash = Sha256(ing.fs[ing.calls[k].filepath]))
            => (/\ ing'.documents = ing.documents
                /\ ing'.chunks = ing.chunks
                /\ ing'.last.ok
                /\ ing'.last.chunks =
                     SelectSeq(ing.chunks,
                       LAMBDA r : ing.documents[r.document_id].file_hash
                                    = Sha256(ing.fs[ing.calls[k].filepath])))]_vars

\* with two documents stored, an indexed file was handed in again with
\* options that segment its text into another number of chunks
C29_Witness ==
  /\ ing.last.existing
  /\ ing.last.ok
  /\ Len(ing.documents) = 2
  /\ ValidateOptions(ing.last.options)
  /\ Len(ing.last.chunks) #
       Len(ChunkerChunk(ExtractText(ing.fs[ing.documents[ing.last.document].filepath]),
                        ing.last.options))

\* ------------------------------------------------- parallelism limit
\* C30: the permit count of the semaphore of a processChunks run started by
\* the add command is within 1..20.
C30_LimitInRange ==
  (caller = "add" /\ pc = "running")
    => opts.maxParallelChunks \in 1..MaxParallelLimit

\* C31: when processChunks with neither stage skipped reports success for a
\* chunk, the persisted status of that chunk is complete, whatever its status
\* was before the call
C31_SuccessMeansComplete ==
  (pc \in {"running", "returned"} /\ ~opts.skipContext /\ ~opts.skipEmbedding)
    => \A i \in 1..Len(results) :
         results[i].success => db[results[i].chunkId].status = "complete"


\* C32: a dry-run processDocument call writes nothing to the store (no
\* document or chunk row is inserted or changed; the service holds no
\* embedding table), and the chunks it returns have the spans, indices and
\* lengths of the rows a normal run with the same text and options stores
C32_DryRunWritesNothing ==
  [][\A k \in Callers :
       (ing.calls[k].pc = "hashing" /\ ing'.calls[k].pc = "idle"
          /\ ing'.last.dryRun) =>
         /\ ing'.documents = ing.documents
         /\ ing'.chunks = ing.chunks
         /\ ing'.fs = ing.fs
         /\ ing'.last.ok =>
              LET stored == ChunkRecords(
                              ChunkerChunk(ing.calls[k].text, ing'.last.options),
                              Len(ing.documents) + 1)
              IN  /\ ing'.last.document = 0
                  /\ ing'.last.chunks =
                       [i \in 1..Len(stored) |->
                          [stored[i] EXCEPT !.document_id = 0]]]_vars

\* a dry run of several chunks has returned while the store holds a document
C32_Witness ==
  /\ ing.last.op = "processDocument"
  /\ ing.last.dryRun
  /\ ing.last.ok
  /\ Len(ing.last.chunks) >= 2
  /\ ing.documents # << >>
  /\ ing.chunks # << >>


\* C33: with maxParallelChunks >= 1, when every provider and store call
\* returns, every pipeline that waits for a permit or for its then-callback
\* is eventually started, and the run of processChunks eventually returns
C33_NoPipelineWaitsForever ==
  /\ \A c \in Chunks :
       (pc = "running" /\ opts.maxParallelChunks >= 1
          /\ pl[c].st \in {"waiting", "granted"})
         ~> (pl[c].st \in {"ctx", "emb", "done", "released"})
  /\ (pc = "running" /\ opts.maxParallelChunks >= 1) ~> (pc = "returned")

\* a pipeline waits on acquire while another holds the only permit and has a
\* provider call out
C33_Witness ==
  /\ pc = "running"
  /\ opts.maxParallelChunks = 1
  /\ waiting # << >>
  /\ \E c \in Chunks : pl[c].st \in {"ctx", "emb"}
  /\ \E c \in Chunks : pl[c].st = "waiting"


\* C34: a failed context stage does not stop the pipeline of its chunk: when
\* the embedding is asked for and not stored yet, the embedding request is
\* issued in the same run; when that request succeeds the status written is
\* embedded, and the result pushed for the chunk has success = false
C34_ContextFailureContinues ==
  [][\A c \in Chunks :
       /\ (pl[c].st = "ctx" /\ pl'[c].st # "ctx" /\ ~pl'[c].contextGenerated
             /\ ~opts.skipEmbedding /\ embeddings[c] = 0)
            => (pl'[c].st = "emb" /\ pl'[c].embCalls = pl[c].embCalls + 1)
       /\ (pl[c].st = "emb" /\ pl[c].lastError = "context"
             /\ pl'[c].embeddingGenerated)
            => (db'[c].status = "embedded" /\ embeddings'[c] = 1
                  /\ pl'[c].st = "done" /\ ~pl'[c].success)
       /\ (pl[c].st = "done" /\ pl'[c].st = "released"
             /\ pl[c].lastError = "context" /\ pl[c].embeddingGenerated)
            => (/\ results'[Len(results')].chunkId = c
                /\ ~results'[Len(results')].success
                /\ results'[Len(results')].embeddingGenerated
                /\ db'[c].status = "embedded")]_vars

\* a run has returned a failed result for a chunk whose context request
\* failed and whose embedding was then generated and stored
C34_Witness ==
  \E c \in Chunks :
    /\ pc = "returned"
    /\ pl[c].st = "released"
    /\ pl[c].ctxCalls = 1 /\ ~pl[c].contextGenerated
    /\ pl[c].embCalls = 1 /\ pl[c].embeddingGenerated
    /\ db[c].status = "embedded" /\ embeddings[c] = 1
    /\ \E i \in ResultsFor(c) : ~results[i].success


\* C35: over any sequence of processChunks runs that do not overlap in time,
\* whatever stages failed, threw or were skipped in earlier runs, no chunk
\* has more than one stored embedding
C35_OneEmbeddingPerChunk ==
  \A c \in Chunks : embeddings[c] <= 1

\* a later run asked for embeddings and went through a chunk whose embedding
\* was stored by an earlier run that failed before its status update: no
\* second embedding request was made
C35_Witness ==
  \E c \in Chunks :
    /\ pc = "returned"
    /\ ~opts.skipEmbedding
    /\ pl[c].st = "released"
    /\ pl[c].embCalls = 0
    /\ embeddings[c] = 1
    /\ db[c].status \in {"pending", "contextualized"}


\* C36: the counters processChunks returns agree with its results:
\* contextSuccessCount is the number of results with contextGenerated and
\* embeddingSuccessCount the number of results with embeddingGenerated,
\* results with success = false included
C36_CountersMatchResults ==
  (pc = "returned" /\ ret = "result") =>
    /\ counts.contextSuccessCount =
         Cardinality({i \in 1..Len(results) : results[i].contextGenerated})
    /\ counts.embeddingSuccessCount =
         Cardinality({i \in 1..Len(results) : results[i].embeddingGenerated})


\* C37: permits are handed out, and pipelines started, in the order of the
\* pending chunk list: a pipeline never holds a permit while one earlier in
\* the list still waits for its permit, and never has started while one
\* earlier in the list has not
Started(c) == pl[c].st \in {"ctx", "emb", "done", "released"}
C38_CharacterOverlap ==
  (ChunkReturned /\ ck.options.strategy = "character" /\ ck.options.overlap >= 1)
    => /\ \A pos \in 0..(Len(ck.text) - 1) :
            \E k \in 1..Len(ck.chunks) :
              ck.chunks[k].startPosition <= pos /\ pos < ck.chunks[k].endPosition
       /\ \A k \in 1..(Len(ck.chunks) - 1) :
            ck.chunks[k].endPosition - ck.chunks[k + 1].startPosition
              = ck.options.overlap


\* C39: sentence strategy: every pass of the loop of chunkBySentence that
\* finds a sentence left pushes a chunk that starts with that sentence (even
\* when the sentence alone is longer than size) and leaves the loop index
\* at a later sentence than the one the chunk began at, so whatever the
\* back-tracking for the overlap, the next chunk begins strictly later
C39_SentenceProgress ==
  [][(ck.pc = "sentence" /\ ck.i < Len(ck.sentences)) =>
       LET first == ck.sentences[ck.i + 1]
           chunk == ck'.chunks[Len(ck'.chunks)]
       IN  /\ ck'.i > ck.i
           /\ ck'.i <= Len(ck.sentences)
           /\ Len(ck'.chunks) = Len(ck.chunks) + 1
           /\ chunk.startPosition = first.startPosition
           /\ chunk.endPosition >= first.endPosition
           /\ Len(chunk.text) >= Len(first.text)
           /\ SubSeq(chunk.text, 1, Len(first.text)) = first.text]_vars

\* the back-tracking stepped back: a chunk begins inside the span of the
\* chunk before it, after the sentence that chunk began at
C39_Witness ==
  /\ ck.pc = "sentence"
  /\ ck.options.overlap >= 2
  /\ \E k \in 1..(Len(ck.chunks) - 1) :
       /\ ck.chunks[k + 1].startPosition < ck.chunks[k].endPosition
       /\ ck.chunks[k + 1].startPosition > ck.chunks[k].startPosition

====
